---- MODULE Spec2Model ----
(***************************************************************************)
(* The archive / remove engine of the Azure HSM mover                      *)
(* (cmd/lhsm-plugin-az-core): Archive replicates the ancestor directories  *)
(* of a file as placeholder blobs and uploads the file content, Remove     *)
(* deletes one blob.  The blob store and the local filesystem are the      *)
(* environment: every call on them is one step, and may fail.              *)
(*                                                                         *)
(* A path string is modelled as the sequence of its segments, as           *)
(* strings.Split(s, "/") produces them: "a/b" is <<"a","b">>, "/c" is      *)
(* <<"","c">> and the empty string is <<"">>.                              *)
(***************************************************************************)
EXTENDS Integers, Sequences, FiniteSets, TLC

\* ------------------------------------------------------------------ bounds
\* number of mover actions that may be in flight at the same time
NProc == 2

\* deepest nesting of an archived file under the mount root
MaxDepth == 2

Proc == 1..NProc

\* ------------------------------------------------------- inputs (options)
\* o.ContainerName
ContainerName == <<"c">>

\* o.MountRoot
MountRoot == <<"", "mnt", "fs">>

\* the directory chain under the mount root, and the file in each of them
DirNames == <<"a", "b", "d", "e">>

FileNames == <<"b", "g", "file.txt", "h", "i">>

\* o.BlobName: the files under the mount root, as relative paths:
\* b, a/g, a/b/file.txt, ...
BlobNames == { SubSeq(DirNames, 1, k) \o <<FileNames[k + 1]>> : k \in 0..MaxDepth }

\* o.ExportPrefix: not configured, or one sub-path
ExportPrefixes == { <<"">>, <<"export1">>, <<"a">> }

\* ArchiveOptions / RemoveOptions, the fields that decide the addressing
Options == [BlobName : BlobNames, ExportPrefix : ExportPrefixes, HNSEnabled : BOOLEAN]

NoOptions == [BlobName |-> <<"">>, ExportPrefix |-> <<"">>, HNSEnabled |-> FALSE]

\* ------------------------------------------------------------ path library
EmptyString == <<"">>

Last(s) == s[Len(s)]

Front(s) == SubSeq(s, 1, Len(s) - 1)

RECURSIVE CleanSegs(_, _, _)
\* path.Clean, the pass over the segments: "" and "." are dropped, ".."
\* removes the segment before it
CleanSegs(out, segs, rooted) ==
    IF segs = <<>> THEN out
    ELSE LET s == Head(segs)
             rest == Tail(segs)
         IN  CASE s \in {"", "."} -> CleanSegs(out, rest, rooted)
               [] s = ".." ->
                    IF out # <<>> /\ Last(out) # ".."
                    THEN CleanSegs(Front(out), rest, rooted)
                    ELSE IF rooted THEN CleanSegs(out, rest, rooted)
                    ELSE CleanSegs(Append(out, ".."), rest, rooted)
               [] OTHER -> CleanSegs(Append(out, s), rest, rooted)

\* path.Clean
Clean(p) ==
    IF p = EmptyString THEN <<".">>
    ELSE LET rooted == Len(p) > 1 /\ p[1] = ""
             body == CleanSegs(<<>>, p, rooted)
         IN  IF rooted THEN (IF body = <<>> THEN <<"", "">> ELSE <<"">> \o body)
             ELSE IF body = <<>> THEN <<".">> ELSE body

RECURSIVE Concat(_)
\* strings.Join(elems, "/") on segment sequences
Concat(elems) ==
    IF elems = <<>> THEN <<>> ELSE Head(elems) \o Concat(Tail(elems))

\* path.Join: empty elements are ignored, the rest joined and cleaned
Join(elems) ==
    LET nonEmpty == SelectSeq(elems, LAMBDA e : e # EmptyString)
    IN  IF nonEmpty = <<>> THEN EmptyString ELSE Clean(Concat(nonEmpty))

\* the path of the URL "https://<account>.blob.core.windows.net/" + s
UrlPath(s) == <<"">> \o s

\* azblob appendToURLPath: the name is appended after a "/", not cleaned
AppendToURLPath(path, name) ==
    IF Last(path) = "" THEN Front(path) \o name ELSE path \o name

\* ---------------------------------------------------------------- Archive
\* the last segment, the file itself, kept among the ancestors
ParentsBug(name) == name

\* parents := strings.Split(o.BlobName, "/"); parents = parents[:len(parents)-1]
Parents(name) == SubSeq(name, 1, Len(name) - 1)

\* cURL: the container URL
ContainerUrlPath(o) == UrlPath(ContainerName)

\* blobURL := containerURL.NewBlockBlobURL(o.BlobName)
ArchiveBlobPath(o) == AppendToURLPath(ContainerUrlPath(o), o.BlobName)

\* the dfs URL of the file: /<container>/<BlobName>, the same object
ArchiveDfsPath(o) == UrlPath(ContainerName \o o.BlobName)

\* ----------------------------------------------------------------- Remove
\* blobPath := path.Join(o.ContainerName, o.ExportPrefix, o.BlobName)
RemoveBlobPath(o) == UrlPath(Join(<<ContainerName, o.ExportPrefix, o.BlobName>>))

\* ------------------------------------------------------------- filesystem
\* os.Stat of a path under the mount root: ownership, mode and mtime
StatOf(path, isDir) ==
    [Uid |-> 1000 + Len(path), Gid |-> 100 + Len(path),
     Mode |-> [dir |-> isDir, perm |-> IF isDir THEN 493 ELSE 420],
     ModTime |-> 7 * Len(path), Size |-> IF isDir THEN 0 ELSE 10 + Len(path)]

\* o.SourcePath: the file under the mount root that BlobName names
SourcePath(o) == Join(<<MountRoot, o.BlobName>>)

GenericKeys == {"Permissions", "ModTime", "Owner", "Group"}

\* the four generic metadata values, formatted from the stat fields
GenericMeta(st) ==
    [k \in GenericKeys |->
        CASE k = "Permissions" -> <<"%o", st.Mode>>
          [] k = "ModTime" -> <<"2006-01-02 15:04:05 -0700", st.ModTime>>
          [] k = "Owner" -> <<"%d", st.Uid>>
          [] k = "Group" -> <<"%d", st.Gid>>]

IsFolder == "hdi_isfolder" :> <<"true">>

\* a placeholder that carries the generic keys in every mode
DirMetaBug(hns, st) == IsFolder @@ GenericMeta(st)

\* meta of a directory placeholder
DirMeta(hns, st) == IF hns THEN IsFolder ELSE IsFolder @@ GenericMeta(st)

\* meta of the content object
FileMeta(st) == GenericMeta(st)

NoMeta == [k \in {} |-> <<>>]

NoAcl == ""

DefaultAcl == "user::rwx,group::r-x,other::---"

\* a directory placeholder: zero bytes
Placeholder(meta) == [kind |-> "dir", meta |-> meta, size |-> 0, src |-> <<>>, acl |-> DefaultAcl]

\* a content object: the bytes of the source file
Content(meta, src, size) == [kind |-> "file", meta |-> meta, size |-> size, src |-> src, acl |-> DefaultAcl]

\* --------------------------------------------------------------- errors
Nil == "nil"

ErrMetadataUnavailable == "MetadataUnavailable"

ErrBackendUnavailable == "BackendUnavailable"

ErrBlobNotFound == "BlobNotFound"

\* ------------------------------------------------------------------ state
VARIABLES
    store,    \* the container: URL path -> object
    pc,       \* per action: where it stands
    op,       \* per action: "none", "Archive" or "Remove", the current or last one
    opts,     \* per action: its options
    idx,      \* Archive: index of currDir in parents
    urlPath,  \* Archive: u.Path
    dirPath,  \* Archive: dirPath
    acl,      \* Archive: acl
    ret,      \* per action: what the last call returned, [n, err]
    calls     \* per action: the filesystem and store calls of the current call

vars == <<store, pc, op, opts, idx, urlPath, dirPath, acl, ret, calls>>

NoRet == [n |-> 0, err |-> "pending"]

Init ==
    /\ store = <<>>
    /\ pc = [p \in Proc |-> "idle"]
    /\ op = [p \in Proc |-> "none"]
    /\ opts = [p \in Proc |-> NoOptions]
    /\ idx = [p \in Proc |-> 0]
    /\ urlPath = [p \in Proc |-> EmptyString]
    /\ dirPath = [p \in Proc |-> EmptyString]
    /\ acl = [p \in Proc |-> NoAcl]
    /\ ret = [p \in Proc |-> NoRet]
    /\ calls = [p \in Proc |-> <<>>]


\* ------------------------------------------------------- the environment
\* one call on the filesystem or on the store, with what it answered
Call(name, on, key, meta, res) == [op |-> name, on |-> on, key |-> key, meta |-> meta, res |-> res]

\* what the store can answer to a call that reads or changes an existing object
OnExisting(key) == IF key \in DOMAIN store THEN {"ok", "fail"} ELSE {"notfound", "fail"}

\* what the store, or the filesystem, can answer to any other call
Outcomes == {"ok", "fail"}

\* the error value of an answer
ErrOf(res) == IF res = "notfound" THEN ErrBlobNotFound ELSE ErrBackendUnavailable

\* Upload / UploadFileToBlockBlob: the object at key is replaced
Put(key, obj) == store' = (key :> obj) @@ store

\* SetAccessControl
PutAcl(key, a) == store' = [store EXCEPT ![key].acl = a]

\* Delete
Del(key) == store' = [k \in DOMAIN store \ {key} |-> store[k]]

\* ----------------------------------------------------------- control flow
Log(p, c) == calls' = [calls EXCEPT ![p] = Append(@, c)]

Goto(p, l) ==
    /\ pc' = [pc EXCEPT ![p] = l]
    /\ UNCHANGED ret

\* return n, err
Return(p, n, e) ==
    /\ pc' = [pc EXCEPT ![p] = "idle"]
    /\ ret' = [ret EXCEPT ![p] = [n |-> n, err |-> e]]

\* a nil dereference: the plugin process goes down with all its actions
Panic(p) ==
    /\ pc' = [q \in Proc |-> "crashed"]
    /\ UNCHANGED ret

\* total := fileInfo.Size()
Total(o) == StatOf(SourcePath(o), FALSE).Size

\* the step of the directory loop after currDir is done
AfterDir(p) ==
    IF idx[p] < Len(Parents(opts[p].BlobName))
    THEN /\ idx' = [idx EXCEPT ![p] = @ + 1]
         /\ Goto(p, "dir_stat")
    ELSE /\ UNCHANGED idx
         /\ Goto(p, "file_stat")

\* a directory error that is logged and then ignored
DirFailIgnored(p, e) == Goto(p, "file_stat")

\* every error of the directory loop: log, return 0, err
DirFail(p, e) == Return(p, 0, e)

\* an ACL fetch error that is logged and then ignored
FileGetAclFailIgnored(p, e) == Goto(p, "file_upload")

\* the file's ACL cannot be fetched: log, return 0, err
FileGetAclFail(p, e) == Return(p, 0, e)

\* an ACL write error that is logged and dropped
FileSetAclDoneSwallowed(p, e) == Return(p, Total(opts[p]), Nil)

\* after SetAccessControl on the file: err is logged if set; return total, err
FileSetAclDone(p, e) == Return(p, Total(opts[p]), e)

\* ---------------------------------------------------------------- Archive
\* Archive(o) is called: the locals before the directory loop
StartArchive(p, o) ==
    /\ pc[p] = "idle"
    /\ op' = [op EXCEPT ![p] = "Archive"]
    /\ opts' = [opts EXCEPT ![p] = o]
    /\ calls' = [calls EXCEPT ![p] = <<>>]
    /\ ret' = [ret EXCEPT ![p] = NoRet]
    /\ urlPath' = [urlPath EXCEPT ![p] = ContainerUrlPath(o)]
    /\ dirPath' = [dirPath EXCEPT ![p] = MountRoot]
    /\ idx' = [idx EXCEPT ![p] = 1]
    /\ acl' = [acl EXCEPT ![p] = NoAcl]
    /\ pc' = [pc EXCEPT ![p] = IF Parents(o.BlobName) = <<>> THEN "file_stat" ELSE "dir_stat"]
    /\ UNCHANGED store

\* the head of one iteration: acl is declared anew, both paths grow by
\* currDir, the directory is opened and stat-ed
DirStat(p) ==
    /\ pc[p] = "dir_stat"
    /\ LET currDir == <<Parents(opts[p].BlobName)[idx[p]]>>
           u == Join(<<urlPath[p], currDir>>)
           d == Join(<<dirPath[p], currDir>>)
       IN  /\ urlPath' = [urlPath EXCEPT ![p] = u]
           /\ dirPath' = [dirPath EXCEPT ![p] = d]
           /\ \E res \in Outcomes :
                /\ Log(p, Call("Stat", "dir", d, NoMeta, res))
                /\ IF res = "ok"
                   THEN Goto(p, IF opts[p].HNSEnabled THEN "dir_getacl" ELSE "dir_upload")
                   ELSE DirFail(p, ErrMetadataUnavailable)
    /\ acl' = [acl EXCEPT ![p] = NoAcl]
    /\ UNCHANGED <<store, op, opts, idx>>

\* dirURL.GetAccessControl: any error returns, BlobNotFound included
DirGetAcl(p) ==
    /\ pc[p] = "dir_getacl"
    /\ \E res \in OnExisting(urlPath[p]) :
         /\ Log(p, Call("GetAccessControl", "dir", urlPath[p], NoMeta, res))
         /\ IF res = "ok"
            THEN /\ acl' = [acl EXCEPT ![p] = store[urlPath[p]].acl]
                 /\ Goto(p, "dir_upload")
            ELSE /\ UNCHANGED acl
                 /\ DirFail(p, ErrOf(res))
    /\ UNCHANGED <<store, op, opts, idx, urlPath, dirPath>>

\* dirURL.Upload of the zero-byte placeholder; in flat mode the iteration ends
DirUpload(p) ==
    /\ pc[p] = "dir_upload"
    /\ LET meta == DirMeta(opts[p].HNSEnabled, StatOf(dirPath[p], TRUE))
       IN  \E res \in Outcomes :
             /\ Log(p, Call("Upload", "dir", urlPath[p], meta, res))
             /\ IF res = "ok"
                THEN /\ Put(urlPath[p], Placeholder(meta))
                     /\ IF opts[p].HNSEnabled
                        THEN Goto(p, "dir_setacl") /\ UNCHANGED idx
                        ELSE AfterDir(p)
                ELSE /\ UNCHANGED <<store, idx>>
                     /\ DirFail(p, ErrOf(res))
    /\ UNCHANGED <<op, opts, urlPath, dirPath, acl>>

\* dirURL.SetAccessControl with the ACL fetched before the upload
DirSetAcl(p) ==
    /\ pc[p] = "dir_setacl"
    /\ \E res \in OnExisting(urlPath[p]) :
         /\ Log(p, Call("SetAccessControl", "dir", urlPath[p], NoMeta, res))
         /\ IF res = "ok"
            THEN /\ PutAcl(urlPath[p], acl[p])
                 /\ AfterDir(p)
            ELSE /\ UNCHANGED <<store, idx>>
                 /\ DirFail(p, ErrOf(res))
    /\ UNCHANGED <<op, opts, urlPath, dirPath, acl>>

\* os.Open(o.SourcePath) and file.Stat(), errors dropped: fileInfo.Size()
\* on a file that cannot be opened is a nil dereference
FileStat(p) ==
    /\ pc[p] = "file_stat"
    /\ \E res \in Outcomes :
         /\ Log(p, Call("Stat", "file", SourcePath(opts[p]), NoMeta, res))
         /\ IF res = "ok"
            THEN Goto(p, IF opts[p].HNSEnabled THEN "file_getacl" ELSE "file_upload")
            ELSE Panic(p)
    /\ UNCHANGED <<store, op, opts, idx, urlPath, dirPath>>
    /\ acl' = [acl EXCEPT ![p] = NoAcl]

\* dfsURL.GetAccessControl on the file, before the upload
FileGetAcl(p) ==
    /\ pc[p] = "file_getacl"
    /\ LET key == ArchiveDfsPath(opts[p])
       IN  \E res \in OnExisting(key) :
             /\ Log(p, Call("GetAccessControl", "file", key, NoMeta, res))
             /\ IF res = "ok"
                THEN /\ acl' = [acl EXCEPT ![p] = store[key].acl]
                     /\ Goto(p, "file_upload")
                ELSE /\ UNCHANGED acl
                     /\ FileGetAclFail(p, ErrOf(res))
    /\ UNCHANGED <<store, op, opts, idx, urlPath, dirPath>>

\* azblob.UploadFileToBlockBlob; in flat mode Archive returns total, nil
FileUpload(p) ==
    /\ pc[p] = "file_upload"
    /\ LET o == opts[p]
           key == ArchiveBlobPath(o)
           meta == FileMeta(StatOf(SourcePath(o), FALSE))
       IN  \E res \in Outcomes :
             /\ Log(p, Call("Upload", "file", key, meta, res))
             /\ IF res = "ok"
                THEN /\ Put(key, Content(meta, SourcePath(o), Total(o)))
                     /\ IF o.HNSEnabled
                        THEN Goto(p, "file_setacl")
                        ELSE Return(p, Total(o), Nil)
                ELSE /\ UNCHANGED store
                     /\ Return(p, 0, ErrOf(res))
    /\ UNCHANGED <<op, opts, idx, urlPath, dirPath, acl>>

\* dfsURL.SetAccessControl on the file, then return total, err
FileSetAcl(p) ==
    /\ pc[p] = "file_setacl"
    /\ LET key == ArchiveDfsPath(opts[p])
       IN  \E res \in OnExisting(key) :
             /\ Log(p, Call("SetAccessControl", "file", key, NoMeta, res))
             /\ IF res = "ok"
                THEN /\ PutAcl(key, acl[p])
                     /\ FileSetAclDone(p, Nil)
                ELSE /\ UNCHANGED store
                     /\ FileSetAclDone(p, ErrOf(res))
    /\ UNCHANGED <<op, opts, idx, urlPath, dirPath, acl>>

\* ----------------------------------------------------------------- Remove
RemoveOptions == {o \in Options : ~o.HNSEnabled}

\* Remove(o): one Delete with DeleteSnapshotsOptionInclude, its error returned
Remove(p, o) ==
    /\ pc[p] = "idle"
    /\ LET key == RemoveBlobPath(o)
       IN  \E res \in OnExisting(key) :
             /\ calls' = [calls EXCEPT ![p] = <<Call("Delete", "file", key, NoMeta, res)>>]
             /\ IF res = "ok" THEN Del(key) ELSE UNCHANGED store
             /\ ret' = [ret EXCEPT ![p] = [n |-> 0, err |-> IF res = "ok" THEN Nil ELSE ErrOf(res)]]
    /\ op' = [op EXCEPT ![p] = "Remove"]
    /\ opts' = [opts EXCEPT ![p] = o]
    /\ idx' = [idx EXCEPT ![p] = 0]
    /\ urlPath' = [urlPath EXCEPT ![p] = EmptyString]
    /\ dirPath' = [dirPath EXCEPT ![p] = EmptyString]
    /\ acl' = [acl EXCEPT ![p] = NoAcl]
    /\ UNCHANGED pc

\* ---------------------------------------------------------- specifications
\* the task of a mover that runs one action at a time
Single == CHOOSE p \in Proc : \A q \in Proc : p <= q

\* the export prefix is set once for a mover; the account may be moved to
\* the hierarchical namespace between two actions
SameConfig(p, o) == op[p] # "none" => o.ExportPrefix = opts[p].ExportPrefix

\* the mover runs one action at a time
Next ==
    \E p \in {Single} :
        \/ \E o \in Options : SameConfig(p, o) /\ StartArchive(p, o)
        \/ \E o \in RemoveOptions : SameConfig(p, o) /\ Remove(p, o)
        \/ DirStat(p)
        \/ DirGetAcl(p)
        \/ DirUpload(p)
        \/ DirSetAcl(p)
        \/ FileStat(p)
        \/ FileGetAcl(p)
        \/ FileUpload(p)
        \/ FileSetAcl(p)

Spec == Init /\ [][Next]_vars

\* the actions of one mover share its configuration, and concurrent
\* archives are of different files
Disjoint(p, o) ==
    \A q \in Proc \ {p} :
        op[q] # "none" =>
            /\ opts[q].BlobName # o.BlobName
            /\ opts[q].HNSEnabled = o.HNSEnabled
            /\ opts[q].ExportPrefix = o.ExportPrefix

\* the files below the directory that all of them share
SharedDirNames == {n \in BlobNames : Len(n) > 1}

\* every action archives one file below the shared directory, the actions
\* run concurrently
NextConc ==
    \E p \in Proc :
        \/ /\ op[p] = "none"
           /\ \E o \in Options :
                o.BlobName \in SharedDirNames /\ Disjoint(p, o) /\ StartArchive(p, o)
        \/ DirStat(p)
        \/ DirGetAcl(p)
        \/ DirUpload(p)
        \/ DirSetAcl(p)
        \/ FileStat(p)
        \/ FileGetAcl(p)
        \/ FileUpload(p)
        \/ FileSetAcl(p)

\* the key of the i-th ancestor of a file, and the directory it stands for
AncestorKey(name, i) == UrlPath(ContainerName \o SubSeq(name, 1, i))

AncestorDir(name, i) == MountRoot \o SubSeq(name, 1, i)

\* the container after every file was archived once in flat mode
ArchivedStore ==
    LET dirs == {<<n, i>> \in BlobNames \X (1..(MaxDepth + 1)) : i < Len(n)}
        dirObj == [k \in {AncestorKey(d[1], d[2]) : d \in dirs} |->
                     LET d == CHOOSE d \in dirs : AncestorKey(d[1], d[2]) = k
                     IN  Placeholder(DirMeta(FALSE, StatOf(AncestorDir(d[1], d[2]), TRUE)))]
        fileObj == [k \in {UrlPath(ContainerName \o n) : n \in BlobNames} |->
                     LET n == CHOOSE n \in BlobNames : UrlPath(ContainerName \o n) = k
                         src == MountRoot \o n
                     IN  Content(FileMeta(StatOf(src, FALSE)), src, StatOf(src, FALSE).Size)]
    IN  dirObj @@ fileObj

\* the mover starts on an empty container, or on one that holds an
\* earlier archive of the files
InitConc ==
    /\ store \in {<<>>, ArchivedStore}
    /\ pc = [p \in Proc |-> "idle"]
    /\ op = [p \in Proc |-> "none"]
    /\ opts = [p \in Proc |-> NoOptions]
    /\ idx = [p \in Proc |-> 0]
    /\ urlPath = [p \in Proc |-> EmptyString]
    /\ dirPath = [p \in Proc |-> EmptyString]
    /\ acl = [p \in Proc |-> NoAcl]
    /\ ret = [p \in Proc |-> NoRet]
    /\ calls = [p \in Proc |-> <<>>]

SpecConc == InitConc /\ [][NextConc]_vars

\* ArchivedStore is a container that the mover produces (reached under Spec)
ArchivedStoreProduced == store = ArchivedStore


\* ================================================================ claims
\* Archive has returned in action p
Returned(p) == op[p] = "Archive" /\ pc[p] = "idle"

\* the indices of the calls of p that are `name` on `on`
CallsOf(p, name, on) ==
    {i \in DOMAIN calls[p] : calls[p][i].op = name /\ calls[p][i].on = on}

\* the placeholder uploads of p, in the order they were issued
DirUploads(p) == SelectSeq(calls[p], LAMBDA c : c.op = "Upload" /\ c.on = "dir")

\* number of path separators of the object name of p
Separators(p) == Len(opts[p].BlobName) - 1

IsPrefix(s, t) == Len(s) <= Len(t) /\ SubSeq(t, 1, Len(s)) = s

IsStrictPrefix(s, t) == Len(s) < Len(t) /\ IsPrefix(s, t)

\* the content object of the file that p archives is in the container
ContentStored(p) ==
    LET key == UrlPath(ContainerName \o opts[p].BlobName)
    IN  /\ key \in DOMAIN store
        /\ store[key].kind = "file"
        /\ store[key].src = MountRoot \o opts[p].BlobName

\* ------------------------------------------------------------------- C1
\* C1 (as claimed): an Archive that succeeded, followed immediately by a
\* Remove of the same object with the same export prefix that the store did
\* not fail, leaves no object at the key where Archive stored the content.
C1_ArchiveThenRemoveLeavesNothing ==
    [][\A p \in Proc :
        ( /\ Returned(p) /\ ret[p].err = Nil
          /\ pc'[p] = "idle" /\ op'[p] = "Remove"
          /\ opts'[p].BlobName = opts[p].BlobName
          /\ opts'[p].ExportPrefix = opts[p].ExportPrefix
          /\ calls'[p][1].res # "fail" )
        => ArchiveBlobPath(opts[p]) \notin DOMAIN store']_vars

\* ------------------------------------------------------------------- C2
\* the ACL re-application of p failed after the content upload: the last
\* call of a returned Archive is the failed SetAccessControl on the file
SetAclFailed(p) ==
    /\ Returned(p)
    /\ opts[p].HNSEnabled
    /\ calls[p] # <<>>
    /\ Last(calls[p]).op = "SetAccessControl"
    /\ Last(calls[p]).on = "file"
    /\ Last(calls[p]).res # "ok"

C3_DirectoryFailureIsFatal ==
    \A p \in Proc :
        op[p] = "Archive" =>
            /\ \A i \in DOMAIN calls[p] :
                 (calls[p][i].on = "dir" /\ calls[p][i].res # "ok") =>
                    /\ i = Len(calls[p])
                    /\ pc[p] = "idle"
                    /\ ret[p].n = 0
                    /\ ret[p].err # Nil
                    /\ ret[p].err =
                         (IF calls[p][i].op = "Stat" THEN ErrMetadataUnavailable
                          ELSE ErrOf(calls[p][i].res))
                    /\ CallsOf(p, "Upload", "file") = {}
            /\ \A i \in CallsOf(p, "Upload", "file") :
                 LET before == SubSeq(calls[p], 1, i - 1)
                     written == SelectSeq(before, LAMBDA c :
                                    c.op = "Upload" /\ c.on = "dir" /\ c.res = "ok")
                 IN  /\ Len(written) = Separators(p)
                     /\ \A j \in 1..Len(written) :
                          written[j].key = AncestorKey(opts[p].BlobName, j)

\* a later ancestor failed after an earlier placeholder was written
C3_Witness ==
    \E p \in Proc :
        /\ Returned(p)
        /\ calls[p] # <<>>
        /\ Last(calls[p]).on = "dir"
        /\ Last(calls[p]).res # "ok"
        /\ Len(DirUploads(p)) >= 1
        /\ DirUploads(p)[1].res = "ok"
        /\ ret[p].n = 0

\* ------------------------------------------------------------------- C4
\* C4: a successful Archive of a name with k separators has issued exactly k
\* placeholder uploads, the i-th at the key of the i-th ancestor, each key a
\* strict prefix of the next and of the content key, and the content upload
\* after the last of them.
C4_PlaceholdersInPrefixOrder ==
    \A p \in Proc :
        (Returned(p) /\ ret[p].err = Nil) =>
            LET ups == DirUploads(p)
                k == Separators(p)
                content == UrlPath(ContainerName \o opts[p].BlobName)
            IN  /\ Len(ups) = k
                /\ \A i \in 1..Len(ups) :
                     /\ ups[i].res = "ok"
                     /\ ups[i].key = AncestorKey(opts[p].BlobName, i)
                     /\ IsStrictPrefix(ups[i].key, content)
                     /\ i < Len(ups) => IsStrictPrefix(ups[i].key, ups[i + 1].key)
                /\ Cardinality(CallsOf(p, "Upload", "file")) = 1
                /\ \A i \in CallsOf(p, "Upload", "file") :
                     /\ calls[p][i].key = content
                     /\ \A j \in CallsOf(p, "Upload", "dir") : j < i

\* an Archive of a name with two separators or more has succeeded
C4_Witness ==
    \E p \in Proc :
        /\ Returned(p) /\ ret[p].err = Nil
        /\ Separators(p) >= 2
        /\ Len(DirUploads(p)) = Separators(p)

\* ------------------------------------------------------------------- C5
\* the keys and values of the generic metadata of a stat record
HasGeneric(meta, st) ==
    /\ GenericKeys \subseteq DOMAIN meta
    /\ meta["Owner"] = <<"%d", st.Uid>>
    /\ meta["Group"] = <<"%d", st.Gid>>
    /\ meta["Permissions"] = <<"%o", st.Mode>>
    /\ meta["ModTime"] = <<"2006-01-02 15:04:05 -0700", st.ModTime>>

\* C5: every upload of an Archive carries the metadata of its mode: the
\* content exactly the four generic keys of the source file's stat, a flat
\* placeholder those of its directory and hdi_isfolder = "true", a placeholder
\* in hierarchical-namespace mode hdi_isfolder = "true" alone; and what the
\* container holds has the same shape.
C5_MetadataByMode ==
    /\ \A p \in Proc : \A i \in DOMAIN calls[p] :
         LET c == calls[p][i]
         IN  c.op = "Upload" =>
               IF c.on = "file"
               THEN /\ DOMAIN c.meta = GenericKeys
                    /\ HasGeneric(c.meta, StatOf(MountRoot \o opts[p].BlobName, FALSE))
               ELSE /\ "hdi_isfolder" \in DOMAIN c.meta
                    /\ c.meta["hdi_isfolder"] = <<"true">>
                    /\ IF opts[p].HNSEnabled
                       THEN DOMAIN c.meta = {"hdi_isfolder"}
                       ELSE /\ DOMAIN c.meta = GenericKeys \cup {"hdi_isfolder"}
                            /\ \E j \in 1..Separators(p) :
                                 /\ c.key = AncestorKey(opts[p].BlobName, j)
                                 /\ HasGeneric(c.meta, StatOf(AncestorDir(opts[p].BlobName, j), TRUE))
    /\ \A k \in DOMAIN store :
         IF store[k].kind = "file"
         THEN DOMAIN store[k].meta = GenericKeys
         ELSE DOMAIN store[k].meta \in {{"hdi_isfolder"}, GenericKeys \cup {"hdi_isfolder"}}

\* the container holds a content object, a flat placeholder and a
\* placeholder written in hierarchical-namespace mode
C5_Witness ==
    /\ \E k \in DOMAIN store : store[k].kind = "file"
    /\ \E k \in DOMAIN store : store[k].kind = "dir" /\ DOMAIN store[k].meta = {"hdi_isfolder"}
    /\ \E k \in DOMAIN store :
         store[k].kind = "dir" /\ DOMAIN store[k].meta = GenericKeys \cup {"hdi_isfolder"}


\* ------------------------------------------------------------------- C6
\* C6 (as claimed): a Remove changes no object but the content object of the
\* file it names, and no step takes a directory placeholder out of the
\* container.
C6_RemoveLeavesPlaceholders ==
    [][ /\ \A p \in Proc :
             (pc[p] = "idle" /\ pc'[p] = "idle" /\ op'[p] = "Remove") =>
                 /\ Len(calls'[p]) = 1
                 /\ calls'[p][1].op = "Delete"
                 /\ \A k \in DOMAIN store \ {ArchiveBlobPath(opts'[p])} :
                      k \in DOMAIN store' /\ store'[k] = store[k]
        /\ \A k \in DOMAIN store :
             store[k].kind = "dir" => (k \in DOMAIN store' /\ store'[k].kind = "dir") ]_vars

\* ------------------------------------------------------------------- C8
\* every action has archived its file and returned
AllReturned == \A p \in Proc : Returned(p)

\* neither the store nor the filesystem failed a call
NoFault == \A p \in Proc : \A i \in DOMAIN calls[p] : calls[p][i].res # "fail"

\* C8 (as claimed): when concurrent archives of different files below a
\* shared directory have all returned and neither the store nor the
\* filesystem failed a call, each has succeeded, each
\* content object holds its own file's data and metadata, and each ancestor
\* placeholder holds the metadata of its directory.
C8_ConcurrentArchivesSucceed ==
    (AllReturned /\ NoFault) =>
        \A p \in Proc :
            LET name == opts[p].BlobName
                src == MountRoot \o name
                key == UrlPath(ContainerName \o name)
            IN  /\ ret[p] = [n |-> StatOf(src, FALSE).Size, err |-> Nil]
                /\ key \in DOMAIN store
                /\ store[key].kind = "file"
                /\ store[key].src = src
                /\ store[key].size = StatOf(src, FALSE).Size
                /\ HasGeneric(store[key].meta, StatOf(src, FALSE))
                /\ \A j \in 1..Separators(p) :
                     /\ AncestorKey(name, j) \in DOMAIN store
                     /\ store[AncestorKey(name, j)].kind = "dir"
                     /\ store[AncestorKey(name, j)].meta["hdi_isfolder"] = <<"true">>

\* ------------------------------------------------------------------- C9
\* C9 (as claimed): after the ACL pre-fetch of an ancestor reported that the
\* object does not exist, Archive uploads that directory's placeholder.
C9_NotFoundIsNotAnError ==
    \A p \in Proc :
        op[p] = "Archive" =>
            \A i \in CallsOf(p, "GetAccessControl", "dir") :
                calls[p][i].res = "notfound" =>
                    IF i = Len(calls[p])
                    THEN pc[p] = "dir_upload"
                    ELSE /\ calls[p][i + 1].op = "Upload"
                         /\ calls[p][i + 1].on = "dir"
                         /\ calls[p][i + 1].key = calls[p][i].key

\* ------------------------------------------------------------------ C10
\* call i of p is `name` on the file and was answered res
IsFileCall(p, i, name, res) ==
    /\ i \in DOMAIN calls[p]
    /\ calls[p][i].op = name
    /\ calls[p][i].on = "file"
    /\ calls[p][i].res = res

====
